---- MODULE Spec2Model ----
(***************************************************************************)
(* A model of the Options registry of Options.h: an ordered vector of      *)
(* polymorphic<OptionBase> holders, the declare / forget / get / set       *)
(* surface, parse, and the copy and move operations of the registry.       *)
(*                                                                         *)
(* A C++ exception is modelled as the result of the call: the action sets  *)
(* ret.err to the site that threw and leaves the registry as the code has  *)
(* left it at the throw.                                                   *)
(***************************************************************************)
EXTENDS Integers, Sequences, FiniteSets, TLC

\* The values a caller or an input gives to an option are 1..MaxVal.
MaxVal == 1

Values == 1..MaxVal

\* The value the types with a default_value() return from it.
DefaultVal == 0

\* A declare over a tuple or a list names at most MaxList option types.
MaxList == 2

\* Two Options objects, so that copies and moves have a source and a target.
Regs == {1, 2}

(***************************************************************************)
(* The option types.  A type has a direct base class ("Option" stands for  *)
(* the Option<ValueType> template itself), the string its name() returns,  *)
(* and its default_value().                                                *)
(*   OptBase, OptDerived1, OptDerived2 : a base and two types derived from *)
(*       it that keep its name (two_options_with_same_name_not_allowed)    *)
(*   OptDerived1N, OptDerived2N : the OptDerived1 and OptDerived2 of       *)
(*       two_options_with_different_names_are_allowed, which override      *)
(*       name()                                                            *)
(*   OptOther : a type unrelated to OptBase whose name() is "base" too     *)
(*   OptXA, OptXB, OptYA : names with a short part, "x,a", "x,b", "y,a"    *)
(*   OptA, OptSameAsAByDefault : the types of use_value_of_other_option;   *)
(*       the second overrides value() to return the value of OptA while    *)
(*       it has none of its own                                            *)
(*   OptChecked, OptCheckedD : types that override is_valid() to reject    *)
(*       the values from MaxVal on (ex11_validity_check.cpp); the second   *)
(*       has a default_value() as well                                     *)
(*   OptNoLong, OptNoShort, OptTwoShort : the malformed names ",N" and     *)
(*       "n," of short_and_long_name, and "nn,NN", which has no part of    *)
(*       one character                                                     *)
(*   OptBatch, OptQuiet : switches, derived from OptionSwitch, which is an *)
(*       Option<bool>; OptBatch is the "batch,b" of option_switch,         *)
(*       OptQuiet has a name without a short part; true is 1, false is 0   *)
(***************************************************************************)
TypeParent ==
    [ OptBase      |-> "Option",
      OptDerived1  |-> "OptBase",
      OptDerived2  |-> "OptBase",
      OptDerived1N |-> "OptBase",
      OptDerived2N |-> "OptBase",
      OptOther     |-> "Option",
      OptXA        |-> "Option",
      OptXB        |-> "Option",
      OptYA        |-> "Option",
      OptA         |-> "Option",
      OptSameAsAByDefault |-> "Option",
      OptChecked   |-> "Option",
      OptCheckedD  |-> "Option",
      OptNoLong    |-> "Option",
      OptNoShort   |-> "Option",
      OptTwoShort  |-> "Option",
      OptBatch     |-> "Option",
      OptQuiet     |-> "Option" ]

Types == DOMAIN TypeParent

\* name(): strings are sequences of characters; a derived type that does not
\* override name() returns the string of its base.
TypeName ==
    [ OptBase      |-> <<"b","a","s","e">>,
      OptDerived1  |-> <<"b","a","s","e">>,
      OptDerived2  |-> <<"b","a","s","e">>,
      OptDerived1N |-> <<"d","e","r","i","v","e","d","1">>,
      OptDerived2N |-> <<"d","e","r","i","v","e","d","2">>,
      OptOther     |-> <<"b","a","s","e">>,
      OptXA        |-> <<"x",",","a">>,
      OptXB        |-> <<"x",",","b">>,
      OptYA        |-> <<"y",",","a">>,
      OptA         |-> <<"A">>,
      OptSameAsAByDefault |-> <<"B">>,
      OptChecked   |-> <<"c">>,
      OptCheckedD  |-> <<"d">>,
      OptNoLong    |-> <<",","N">>,
      OptNoShort   |-> <<"n",",">>,
      OptTwoShort  |-> <<"n","n",",","N","N">>,
      OptBatch     |-> <<"b","a","t","c","h",",","b">>,
      OptQuiet     |-> <<"q","u","i","e","t">> ]

\* default_value(): an empty Optional unless the type overrides it; OptBase
\* overrides it and the types derived from OptBase inherit the override;
\* OptCheckedD overrides it too.
TypeDefault ==
    [ T \in Types |->
        IF T = "OptBase" \/ TypeParent[T] = "OptBase" \/ T = "OptCheckedD"
        THEN <<DefaultVal>> ELSE <<>> ]

\* The sets of option types one program defines: a base with two derived
\* types of its name, with a derived type of another name, with an
\* unrelated type of its name; derived types of other names beside an
\* unrelated type, with and without the base; names with a short part,
\* alone and beside an option with a validity check; an option that reads another
\* one; options with a validity check.
Programs ==
    { {"OptBase", "OptDerived1", "OptDerived2"},
      {"OptBase", "OptDerived1", "OptDerived1N"},
      {"OptBase", "OptDerived1", "OptOther"},
      {"OptDerived1", "OptDerived1N", "OptOther"},
      {"OptDerived1N", "OptDerived2N", "OptOther"},
      {"OptBase", "OptDerived1N", "OptOther"},
      {"OptXA", "OptXB", "OptYA"},
      {"OptA", "OptSameAsAByDefault"},
      {"OptChecked", "OptCheckedD"},
      {"OptXA", "OptChecked"} }

\* The programs that copy and move their Options objects.
CopyPrograms ==
    { {"OptBase", "OptDerived1"},
      {"OptDerived1N", "OptDerived2N"},
      {"OptA", "OptSameAsAByDefault"} }

\* The programs that read the long and the short names of their options.
NamePrograms ==
    { {"OptBase", "OptXA", "OptNoLong"},
      {"OptA", "OptNoShort", "OptTwoShort"} }

\* The types whose declare is OptionSwitch::declare.
SwitchTypes == {"OptBatch", "OptQuiet"}

\* The programs with switches.
SwitchPrograms == { {"OptBatch", "OptQuiet", "OptA"} }

VARIABLES
    types,      \* the option types the program defines
    _options,   \* _options[r]: the holder vector of registry r
    ret         \* what the last call returned or threw

vars == <<types, _options, ret>>

\* dynamic_cast<const T*>( &option ) != nullptr for an object of dynamic type E
RECURSIVE IsA(_, _)
IsA(E, T) ==
    \/ E = T
    \/ /\ TypeParent[E] # "Option"
       /\ IsA(TypeParent[E], T)

\* construct that binds every option to the first registry
construct_in_first(T, r) == [type |-> T, _value |-> <<>>, _options |-> 1]

\* OptionBase::construct<OptionType>( options ): a default-constructed
\* option, no value, bound to the registry.
construct(T, r) == [type |-> T, _value |-> <<>>, _options |-> r]

NoRet == [err |-> "none", val |-> <<>>, flag |-> FALSE, type |-> "none"]

Threw(e) == [err |-> e, val |-> <<>>, flag |-> FALSE, type |-> "none"]

\* the scan without the dynamic_cast: the first holder matches
find_option_const_first(opts, T) == IF opts = <<>> THEN 0 ELSE 1

\* the scan with a comparison of the exact type in place of the dynamic_cast
find_option_const_exact(opts, T) ==
    LET matches == {i \in 1..Len(opts) : opts[i].type = T}
    IN  IF Cardinality(matches) > 1 THEN -1
        ELSE IF matches = {} THEN 0
        ELSE CHOOSE i \in matches : TRUE

\* the scan without the throw at a second match: the last match is returned
find_option_const_last(opts, T) ==
    LET matches == {i \in 1..Len(opts) : IsA(opts[i].type, T)}
    IN  IF matches = {} THEN 0
        ELSE CHOOSE i \in matches : \A j \in matches : j <= i

(***************************************************************************)
(* find_option_const<T>: the index of the holder that is-a T, 0 for end(), *)
(* and -1 when the scan meets a second match and throws.                   *)
(***************************************************************************)
find_option_const(opts, T) ==
    LET matches == {i \in 1..Len(opts) : IsA(opts[i].type, T)}
    IN  IF Cardinality(matches) > 1 THEN -1
        ELSE IF matches = {} THEN 0
        ELSE CHOOSE i \in matches : TRUE

\* declare without the collision test
check_no_name_collisions_skipped(opts, T) == FALSE

\* the collision test with the dynamic_cast test inverted
check_no_name_collisions_castable(opts, T) ==
    \E i \in 1..Len(opts) :
        /\ TypeName[opts[i].type] = TypeName[T]
        /\ IsA(opts[i].type, T)

\* check_no_name_collisions<T>: TRUE when it throws.
check_no_name_collisions(opts, T) ==
    \E i \in 1..Len(opts) :
        /\ TypeName[opts[i].type] = TypeName[T]
        /\ ~IsA(opts[i].type, T)

\* declare without the is_declared test
declare_one_unchecked(opts, r, T) ==
    IF check_no_name_collisions(opts, T)
    THEN [opts |-> opts, err |-> "same_name"]
    ELSE [opts |-> Append(opts, construct(T, r)), err |-> "none"]

\* declare that appends the holder before it tests the names
declare_one_appended_first(opts, r, T) ==
    LET found == find_option_const(opts, T)
    IN  IF found = -1 THEN [opts |-> opts, err |-> "more_than_one"]
        ELSE IF found # 0 THEN [opts |-> opts, err |-> "none"]
        ELSE [opts |-> Append(opts, construct(T, r)),
              err  |-> IF check_no_name_collisions(opts, T) THEN "same_name" ELSE "none"]

\* Options::declare<OptionType>() on the vector opts of registry r.
declare_one(opts, r, T) ==
    LET found == find_option_const(opts, T)
    IN  IF found = -1 THEN [opts |-> opts, err |-> "more_than_one"]
        ELSE IF found # 0 THEN [opts |-> opts, err |-> "none"]
        ELSE IF check_no_name_collisions(opts, T)
             THEN [opts |-> opts, err |-> "same_name"]
        ELSE [opts |-> Append(opts, construct(T, r)), err |-> "none"]

(***************************************************************************)
(* The template arguments of declare: an option type, or a std::tuple of   *)
(* arguments (tuples nest).                                                *)
(***************************************************************************)
OptionArg(T) == [kind |-> "option", type |-> T, members |-> <<>>]

TupleArg(ms) == [kind |-> "tuple", type |-> "std::tuple", members |-> ms]

RECURSIVE declare_arg(_, _, _)
RECURSIVE declare_tuple_from(_, _, _, _)
RECURSIVE declare_pack(_, _, _)

\* declare<X>() for one template argument X: overload resolution takes the
\* single-option overload for an option type and the tuple overload, with
\* Index at the first member, for a tuple.
declare_arg(opts, r, arg) ==
    IF arg.kind = "option"
    THEN declare_one(opts, r, arg.type)
    ELSE declare_tuple_from(opts, r, arg.members, 1)

\* a declare over a tuple that restores the vector when a member throws
declare_tuple_from_atomic(opts, r, members, Index) ==
    IF Index = Len(members) + 1
    THEN [opts |-> opts, err |-> "none"]
    ELSE LET first == declare_arg(opts, r, members[Index])
             rest  == declare_tuple_from(first.opts, r, members, Index + 1)
         IN  IF first.err # "none" THEN first
             ELSE IF rest.err # "none" THEN [opts |-> opts, err |-> rest.err]
             ELSE rest

\* Options::declare<TupleType, Index>(): the member at Index is declared,
\* then the rest; at Index == tuple_size nothing is done.  An exception of
\* a member ends the call.
declare_tuple_from(opts, r, members, Index) ==
    IF Index = Len(members) + 1
    THEN [opts |-> opts, err |-> "none"]
    ELSE LET first == declare_arg(opts, r, members[Index])
         IN  IF first.err # "none" THEN first
             ELSE declare_tuple_from(first.opts, r, members, Index + 1)

\* the variadic declare with the other arguments declared before the first
declare_pack_reversed(opts, r, pack) ==
    LET others == IF Len(pack) = 2 THEN declare_arg(opts, r, pack[2])
                  ELSE declare_pack(opts, r, Tail(pack))
    IN  IF others.err # "none" THEN others
        ELSE declare_arg(others.opts, r, Head(pack))

\* Options::declare<FirstOptionOrTuple, OtherOptionsOrTuples...>(), which
\* takes two arguments or more.
declare_pack(opts, r, pack) ==
    LET first == declare_arg(opts, r, Head(pack))
    IN  IF first.err # "none" THEN first
        ELSE IF Len(pack) = 2 THEN declare_arg(first.opts, r, pack[2])
        ELSE declare_pack(first.opts, r, Tail(pack))

\* Options::is_declared<T>(): TRUE, FALSE, or the throw of find_option_const.
is_declared_of(opts, T) ==
    LET found == find_option_const(opts, T)
    IN  IF found = -1 THEN Threw("more_than_one")
        ELSE [err |-> "none", val |-> <<>>, flag |-> (found # 0), type |-> "none"]

\* get without the test for end(): the last holder is returned
get_of_unchecked(opts, T) ==
    LET found == find_option_const(opts, T)
    IN  IF found = -1 THEN [idx |-> 0, err |-> "more_than_one"]
        ELSE IF found = 0 /\ opts = <<>> THEN [idx |-> 0, err |-> "not_declared"]
        ELSE IF found = 0 THEN [idx |-> Len(opts), err |-> "none"]
        ELSE [idx |-> found, err |-> "none"]

(***************************************************************************)
(* Options::get<T>(): the index of the holder it returns a reference to,   *)
(* or the error it throws.                                                 *)
(***************************************************************************)
get_of(opts, T) ==
    LET found == find_option_const(opts, T)
    IN  IF found = -1 THEN [idx |-> 0, err |-> "more_than_one"]
        ELSE IF found = 0 THEN [idx |-> 0, err |-> "not_declared"]
        ELSE [idx |-> found, err |-> "none"]

\* is_set() that never sees the stored value
is_set_of_never(h) == FALSE

\* Option<ValueType>::is_set()
is_set_of(h) == h._value # <<>>

\* value() falling back to default_value() when nothing is stored
value_of_or_default(h) ==
    IF is_set_of(h) THEN [err |-> "none", val |-> h._value, flag |-> FALSE, type |-> "none"]
    ELSE IF TypeDefault[h.type] # <<>>
         THEN [err |-> "none", val |-> TypeDefault[h.type], flag |-> FALSE, type |-> "none"]
    ELSE Threw("not_set")

\* value() returning the stored Optional without the is_set test
value_of_unchecked(h) ==
    [err |-> "none", val |-> h._value, flag |-> FALSE, type |-> "none"]

\* Option<ValueType>::value(): throws unless a value is stored.
value_of(h) ==
    IF ~is_set_of(h) THEN Threw("not_set")
    ELSE [err |-> "none", val |-> h._value, flag |-> FALSE, type |-> "none"]

\* OptSameAsAByDefault::value(): its own value when it has one, else
\* get_options().get<OptA>().value() in the registry the back-reference
\* h._options points at; regs gives the holder vector of every registry.
OptSameAsAByDefault_value(regs, h) ==
    IF is_set_of(h) THEN value_of(h)
    ELSE LET g == get_of(regs[h._options], "OptA")
         IN  IF g.err # "none" THEN Threw(g.err)
             ELSE value_of(regs[h._options][g.idx])

\* the virtual call option.value()
virtual_value(regs, h) ==
    IF h.type = "OptSameAsAByDefault" THEN OptSameAsAByDefault_value(regs, h)
    ELSE value_of(h)

\* raw_value(): the specified value when there is one, else the
\* default_value(); an empty Optional is the empty sequence.
raw_value(h) == IF is_set_of(h) THEN h._value ELSE TypeDefault[h.type]

\* the value() that returns an Optional: raw_value() unless the type
\* overrides it; the override of OptSameAsAByDefault returns its raw_value()
\* when that is initialized and get_options()->get<OptA>().value() else.
optional_value(regs, h) ==
    IF h.type = "OptSameAsAByDefault" /\ raw_value(h) = <<>>
    THEN LET g == get_of(regs[h._options], "OptA")
         IN  IF g.err # "none" THEN Threw(g.err)
             ELSE [err |-> "none", val |-> raw_value(regs[h._options][g.idx]),
                   flag |-> FALSE, type |-> "none"]
    ELSE [err |-> "none", val |-> raw_value(h), flag |-> FALSE, type |-> "none"]

\* get_value_or( fallback ) on the option found: the value() when it is
\* initialized, else the fallback.
get_value_or_of(regs, h, fallback) ==
    LET v == optional_value(regs, h)
    IN  IF v.err = "none" /\ v.val = <<>> THEN [v EXCEPT !.val = <<fallback>>] ELSE v

\* Option<ValueType>::set( value )
set_of(h, v) == [h EXCEPT !._value = <<v>>]

\* Option<ValueType>::is_valid( error_message ): accepts every value unless
\* the type overrides it; the override of OptChecked and OptCheckedD
\* compares the stored value with a limit.
is_valid(h) ==
    IF h.type \in {"OptChecked", "OptCheckedD"} THEN h._value[1] < MaxVal ELSE TRUE

(***************************************************************************)
(* The option names as boost::program_options reads them from the string   *)
(* given to add_options(): the part before the last comma is the long      *)
(* name, the character after it the short name.                            *)
(***************************************************************************)
CommaAt(name) ==
    LET commas == {i \in 1..Len(name) : name[i] = ","}
    IN  IF commas = {} THEN 0 ELSE CHOOSE i \in commas : \A j \in commas : j <= i

long_name(name) ==
    IF CommaAt(name) = 0 THEN name ELSE SubSeq(name, 1, CommaAt(name) - 1)

short_name(name) ==
    IF CommaAt(name) = 0 THEN <<>> ELSE SubSeq(name, CommaAt(name) + 1, Len(name))

\* OptionBase::name_long(): `assert(false); return "";`.  A build with
\* assertions aborts the process, a build with NDEBUG returns the empty
\* string; the results are the outcomes of the two builds.
name_long_of(h) == {Threw("abort"), NoRet}

\* OptionBase::name_short(): `assert(false); return 0;`.  The char 0 is the
\* empty sequence of characters.
name_short_of(h) == {Threw("abort"), NoRet}

\* OptionBase::name_long_prefixed(): std::string("--") + name()
name_long_prefixed_of(h) ==
    [err |-> "none", val |-> <<"-", "-">> \o TypeName[h.type], flag |-> FALSE, type |-> "none"]

\* Options::make_options_description(): every holder adds its name() and,
\* when it has one, its default_value() (Option<ValueType>::declare); a
\* switch adds the implicit value true as well (OptionSwitch::declare).
make_options_description(opts) ==
    [k \in 1..Len(opts) |->
        [long     |-> long_name(TypeName[opts[k].type]),
         short    |-> short_name(TypeName[opts[k].type]),
         default  |-> TypeDefault[opts[k].type],
         implicit |-> IF opts[k].type \in SwitchTypes THEN <<1>> ELSE <<>>]]

\* The value of an argument that names an option and gives it no value.
NoValue == -1

(***************************************************************************)
(* An input names an option by "--key" (style "long") or by "-k" (style    *)
(* "short") on the command line, or by a line "key=value" of the file      *)
(* (style "file"), and gives it a value.  A parser of boost looks the key  *)
(* up in the description.  The file is matched against the whole long      *)
(* names.  The command line parser runs with the default style, which      *)
(* allows guessing: a "--key" that is no whole long name matches the long  *)
(* names it is a beginning of.  No match is an unknown option, two matches *)
(* are an ambiguous one; the parsed option carries the long name of its    *)
(* match.  An argument without a value takes the implicit value of its     *)
(* option; for an option that has none the value is missing.               *)
(***************************************************************************)
IsPrefix(key, name) ==
    /\ Len(key) <= Len(name)
    /\ SubSeq(name, 1, Len(key)) = key

MatchesOf(descr, arg) ==
    LET full   == {k \in 1..Len(descr) : descr[k].long = arg.key}
        approx == {k \in 1..Len(descr) : IsPrefix(arg.key, descr[k].long)}
        short  == {k \in 1..Len(descr) : descr[k].short = arg.key}
    IN  IF arg.style = "short" THEN short
        ELSE IF arg.style = "file" \/ full # {} THEN full
        ELSE approx

RECURSIVE parse_args(_, _, _)
parse_args(descr, args, i) ==
    IF i > Len(args) THEN [err |-> "none", parsed |-> <<>>]
    ELSE LET matches == MatchesOf(descr, args[i])
             rest    == parse_args(descr, args, i + 1)
         IN  IF matches = {} THEN [err |-> "unknown_option", parsed |-> <<>>]
             ELSE IF Cardinality(matches) > 1
                  THEN [err |-> "ambiguous_option", parsed |-> <<>>]
             ELSE IF /\ args[i].value = NoValue
                     /\ descr[CHOOSE k \in matches : TRUE].implicit = <<>>
                  THEN [err |-> "missing_value", parsed |-> <<>>]
             ELSE IF rest.err # "none" THEN rest
             ELSE [err |-> "none",
                   parsed |-> <<[key   |-> descr[CHOOSE k \in matches : TRUE].long,
                                 value |-> IF args[i].value = NoValue
                                           THEN descr[CHOOSE k \in matches : TRUE].implicit[1]
                                           ELSE args[i].value]>> \o rest.parsed]

(***************************************************************************)
(* boost::program_options::store: a variables_map is modelled as a set of  *)
(* entries [key, value, defaulted].  A parsed option is stored unless the  *)
(* map already holds a value for its key that is not a default; then every *)
(* described option that is still absent and has a default gets it.        *)
(***************************************************************************)
HasKey(vm, key) == \E e \in vm : e.key = key

store(parsed, vm, descr) ==
    LET final   == {e \in vm : ~e.defaulted}
        new     == {[key |-> parsed[i].key, value |-> parsed[i].value, defaulted |-> FALSE] :
                        i \in {j \in 1..Len(parsed) : ~HasKey(final, parsed[j].key)}}
        stored  == final \cup new
        default == {[key |-> descr[k].long, value |-> descr[k].default[1], defaulted |-> TRUE] :
                        k \in {j \in 1..Len(descr) :
                                  descr[j].default # <<>> /\ ~HasKey(stored, descr[j].long)}}
    IN  stored \cup default

\* Option<ValueType>::set_from_vm: the map is asked for the whole name()
\* string.
option_set_from_vm(h, vm) ==
    IF HasKey(vm, TypeName[h.type])
    THEN set_of(h, (CHOOSE e \in vm : e.key = TypeName[h.type]).value)
    ELSE h

\* Options::set_from_vm
set_from_vm(opts, vm) == [k \in 1..Len(opts) |-> option_set_from_vm(opts[k], vm)]

\* parse without the check_valid loop
parse_of_unchecked(opts, argv, file) ==
    LET descr      == make_options_description(opts)
        from_file  == parse_args(descr, file, 1)
        vm_file    == IF file = <<>> THEN {} ELSE store(from_file.parsed, {}, descr)
        from_argv  == parse_args(descr, argv, 1)
        vm         == store(from_argv.parsed, vm_file, descr)
    IN  IF from_file.err # "none" THEN [opts |-> opts, err |-> from_file.err]
        ELSE IF from_argv.err # "none" THEN [opts |-> opts, err |-> from_argv.err]
        ELSE [opts |-> set_from_vm(opts, vm), err |-> "none"]

\* parse that sets the values of the file before it parses the command line
parse_of_file_first(opts, argv, file) ==
    LET descr      == make_options_description(opts)
        from_file  == parse_args(descr, file, 1)
        vm_file    == IF file = <<>> THEN {} ELSE store(from_file.parsed, {}, descr)
        from_argv  == parse_args(descr, argv, 1)
        vm         == store(from_argv.parsed, vm_file, descr)
        after      == set_from_vm(opts, vm)
    IN  IF from_file.err # "none" THEN [opts |-> opts, err |-> from_file.err]
        ELSE IF from_argv.err # "none"
             THEN [opts |-> set_from_vm(opts, vm_file), err |-> from_argv.err]
        ELSE IF \E k \in 1..Len(after) : is_set_of(after[k]) /\ ~is_valid(after[k])
             THEN [opts |-> after, err |-> "invalid_argument"]
        ELSE [opts |-> after, err |-> "none"]

(***************************************************************************)
(* Options::parse( argc, argv, optionsFile ): the file, when one is named, *)
(* is parsed and stored first, then the command line; the values of the    *)
(* map are set; then check_valid() runs on every option that has a value.  *)
(* An exception of a parser leaves the options as they were, an exception  *)
(* of check_valid leaves them set.                                         *)
(***************************************************************************)
parse_of(opts, argv, file) ==
    LET descr      == make_options_description(opts)
        from_file  == parse_args(descr, file, 1)
        vm_file    == IF file = <<>> THEN {} ELSE store(from_file.parsed, {}, descr)
        from_argv  == parse_args(descr, argv, 1)
        vm         == store(from_argv.parsed, vm_file, descr)
        after      == set_from_vm(opts, vm)
    IN  IF from_file.err # "none" THEN [opts |-> opts, err |-> from_file.err]
        ELSE IF from_argv.err # "none" THEN [opts |-> opts, err |-> from_argv.err]
        ELSE IF \E k \in 1..Len(after) : is_set_of(after[k]) /\ ~is_valid(after[k])
             THEN [opts |-> after, err |-> "invalid_argument"]
        ELSE [opts |-> after, err |-> "none"]

\* the erase of Options::forget
Erase(opts, i) == [k \in 1..(Len(opts) - 1) |-> IF k < i THEN opts[k] ELSE opts[k + 1]]

\* a clone that default-constructs the wrapped object in place of copying it
clone_fresh(h) == [type |-> h.type, _value |-> <<>>, _options |-> h._options]

\* a clone that copies through the base class and so slices the object
clone_sliced(h) ==
    [type     |-> IF TypeParent[h.type] = "Option" THEN h.type ELSE TypeParent[h.type],
     _value   |-> h._value,
     _options |-> h._options]

\* wrapper_impl<BaseT, ActualT>::clone: a new wrapper around a copy of the
\* ActualT object, made by the copy constructor of ActualT, which copies
\* the stored value and the back-reference.
clone(h) == [type |-> h.type, _value |-> h._value, _options |-> h._options]

\* the copy of the vector: polymorphic's copy constructor clones each holder
CopyVector(opts) == [k \in 1..Len(opts) |-> clone(opts[k])]

\* assign_to that leaves the back-reference as it is
assign_to_kept(h, r) == h

\* OptionBase::assign_to( options )
assign_to(h, r) == [h EXCEPT !._options = r]

\* the copy and move operations without the assign_to loop
AssignAll_unbound(opts, r) == opts

\* the loop `option.get().assign_to( this )` of the copy and move operations
AssignAll(opts, r) == [k \in 1..Len(opts) |-> assign_to(opts[k], r)]

(***************************************************************************)
(* The inputs of the calls.  The lists of option types of a declare: up to *)
(* MaxList types of the program, as a flat tuple, as a tuple whose first   *)
(* or last member is itself a tuple, and as the arguments of the variadic  *)
(* overload.                                                               *)
(***************************************************************************)
TypeSeqs(n) == UNION {[1..k -> types] : k \in 0..n}

OptionArgs(ts) == [k \in 1..Len(ts) |-> OptionArg(ts[k])]

Front(ts) == SubSeq(ts, 1, Len(ts) - 1)

\* flat: std::tuple<A, B>; head: std::tuple< std::tuple<A>, B >;
\* tail: std::tuple< A, std::tuple<B> >
TupleShapes == {"flat", "head", "tail"}

TupleInput(ts, shape) ==
    IF shape = "flat" \/ ts = <<>> THEN TupleArg(OptionArgs(ts))
    ELSE IF shape = "head"
         THEN TupleArg(<<TupleArg(OptionArgs(Front(ts))), OptionArg(ts[Len(ts)])>>)
    ELSE TupleArg(<<OptionArg(Head(ts)), TupleArg(OptionArgs(Tail(ts)))>>)

\* flat: declare<A, B>(); head: declare< std::tuple<A>, B >()
PackShapes == {"flat", "head"}

PackInput(ts, shape) ==
    IF shape = "flat" THEN OptionArgs(ts)
    ELSE <<TupleArg(OptionArgs(Front(ts))), OptionArg(ts[Len(ts)])>>

(***************************************************************************)
(* The inputs of parse: the command line and the options file each give at *)
(* most one option, under a long or short name of a type of the program or *)
(* under a key no type has.  An empty file stands for no file as well.     *)
(* An input may give the value that is the default of some types too.      *)
(***************************************************************************)
InputValues == Values \cup {DefaultVal}

\* The fallbacks of get_value_or: a value an option may hold and one that
\* none holds.
Fallbacks == {DefaultVal, MaxVal + 1}

UnknownKey == <<"z">>

LongKeys == {long_name(TypeName[T]) : T \in types} \cup {UnknownKey}

\* the beginnings of the long names that lack the last character
ShortenedKeys ==
    {SubSeq(k, 1, Len(k) - 1) : k \in {long_name(TypeName[T]) : T \in types}} \ {<<>>}

ShortKeys == {short_name(TypeName[T]) : T \in types} \ {<<>>}

ArgvInputs ==
    {<<>>}
    \cup {<<[style |-> "long", key |-> k, value |-> v]>> :
              k \in LongKeys \cup ShortenedKeys, v \in InputValues}
    \cup {<<[style |-> "short", key |-> k, value |-> v]>> : k \in ShortKeys, v \in InputValues}

FileInputs ==
    {<<>>}
    \cup {<<[style |-> "file", key |-> k, value |-> v]>> : k \in LongKeys, v \in InputValues}

Init ==
    /\ types \in Programs
    /\ _options = [r \in Regs |-> <<>>]
    /\ ret = NoRet

\* Options::declare<OptionType>()
declare(r, T) ==
    LET res == declare_one(_options[r], r, T)
    IN  /\ _options' = [_options EXCEPT ![r] = res.opts]
        /\ ret' = Threw(res.err)
        /\ UNCHANGED types

\* Options::declare<TupleType>()
declare_tuple(r, tuple) ==
    LET res == declare_arg(_options[r], r, tuple)
    IN  /\ _options' = [_options EXCEPT ![r] = res.opts]
        /\ ret' = Threw(res.err)
        /\ UNCHANGED types

\* Options::declare<First, Others...>()
declare_variadic(r, pack) ==
    LET res == declare_pack(_options[r], r, pack)
    IN  /\ _options' = [_options EXCEPT ![r] = res.opts]
        /\ ret' = Threw(res.err)
        /\ UNCHANGED types

\* forget that erases the first holder of the vector
forget_first(r, T) ==
    LET found == find_option_const(_options[r], T)
    IN  /\ IF found = -1
              THEN /\ ret' = Threw("more_than_one")
                   /\ UNCHANGED _options
           ELSE IF found = 0
              THEN /\ ret' = Threw("not_found")
                   /\ UNCHANGED _options
           ELSE /\ ret' = NoRet
                /\ _options' = [_options EXCEPT ![r] = Erase(_options[r], 1)]
        /\ UNCHANGED types

\* Options::forget<OptionType>()
forget(r, T) ==
    LET found == find_option_const(_options[r], T)
    IN  /\ IF found = -1
              THEN /\ ret' = Threw("more_than_one")
                   /\ UNCHANGED _options
           ELSE IF found = 0
              THEN /\ ret' = Threw("not_found")
                   /\ UNCHANGED _options
           ELSE /\ ret' = NoRet
                /\ _options' = [_options EXCEPT ![r] = Erase(_options[r], found)]
        /\ UNCHANGED types

\* Options::is_declared<OptionType>()
is_declared(r, T) ==
    /\ ret' = is_declared_of(_options[r], T)
    /\ UNCHANGED <<types, _options>>

\* Options::is_set<OptionType>()
is_set(r, T) ==
    LET g == get_of(_options[r], T)
    IN  /\ ret' = IF g.err # "none" THEN Threw(g.err)
                  ELSE [err |-> "none", val |-> <<>>, flag |-> is_set_of(_options[r][g.idx]), type |-> "none"]
        /\ UNCHANGED <<types, _options>>

\* Options::get_value<OptionType>()
get_value(r, T) ==
    LET g == get_of(_options[r], T)
    IN  /\ ret' = IF g.err # "none" THEN Threw(g.err)
                  ELSE virtual_value(_options, _options[r][g.idx])
        /\ UNCHANGED <<types, _options>>

\* Options::get<OptionType>(): the reference it returns is recorded by the
\* dynamic type of the holder it refers to.
get(r, T) ==
    LET g == get_of(_options[r], T)
    IN  /\ ret' = IF g.err # "none" THEN Threw(g.err)
                  ELSE [err |-> "none", val |-> <<>>, flag |-> FALSE,
                        type |-> _options[r][g.idx].type]
        /\ UNCHANGED <<types, _options>>

\* set_value that runs check_valid on the new value and keeps the old one
\* when the check fails
set_value_checked(r, T, v) ==
    LET g == get_of(_options[r], T)
    IN  /\ IF g.err # "none"
              THEN /\ ret' = Threw(g.err)
                   /\ UNCHANGED _options
           ELSE IF ~is_valid(set_of(_options[r][g.idx], v))
              THEN /\ ret' = Threw("invalid_argument")
                   /\ UNCHANGED _options
              ELSE /\ ret' = NoRet
                   /\ _options' = [_options EXCEPT ![r][g.idx] = set_of(@, v)]
        /\ UNCHANGED types

\* Options::get_value_or<OptionType>( fallback )
get_value_or(r, T, fallback) ==
    LET g == get_of(_options[r], T)
    IN  /\ ret' = IF g.err # "none" THEN Threw(g.err)
                  ELSE get_value_or_of(_options, _options[r][g.idx], fallback)
        /\ UNCHANGED <<types, _options>>

\* Options::set_value<OptionType>( value )
set_value(r, T, v) ==
    LET g == get_of(_options[r], T)
    IN  /\ IF g.err # "none"
              THEN /\ ret' = Threw(g.err)
                   /\ UNCHANGED _options
              ELSE /\ ret' = NoRet
                   /\ _options' = [_options EXCEPT ![r][g.idx] = set_of(@, v)]
        /\ UNCHANGED types

\* set_value_and_check that checks the value before it stores it
set_value_and_check_first(r, T, v) ==
    LET g == get_of(_options[r], T)
    IN  /\ IF g.err # "none"
              THEN /\ ret' = Threw(g.err)
                   /\ UNCHANGED _options
           ELSE IF ~is_valid(set_of(_options[r][g.idx], v))
              THEN /\ ret' = Threw("invalid_argument")
                   /\ UNCHANGED _options
              ELSE /\ ret' = NoRet
                   /\ _options' = [_options EXCEPT ![r][g.idx] = set_of(@, v)]
        /\ UNCHANGED types

\* Options::set_value_and_check<OptionType>( value ): get, set, check_valid
set_value_and_check(r, T, v) ==
    LET g == get_of(_options[r], T)
    IN  /\ IF g.err # "none"
              THEN /\ ret' = Threw(g.err)
                   /\ UNCHANGED _options
              ELSE /\ _options' = [_options EXCEPT ![r][g.idx] = set_of(@, v)]
                   /\ ret' = IF is_valid(set_of(_options[r][g.idx], v))
                             THEN NoRet ELSE Threw("invalid_argument")
        /\ UNCHANGED types

\* Options::declare_set_check<OptionType>( value ): declare, set_value, then
\* check_valid on the option get returns
declare_set_check(r, T, v) ==
    LET declared == declare_one(_options[r], r, T)
        g        == get_of(declared.opts, T)
    IN  /\ IF declared.err # "none"
              THEN /\ ret' = Threw(declared.err)
                   /\ _options' = [_options EXCEPT ![r] = declared.opts]
           ELSE IF g.err # "none"
              THEN /\ ret' = Threw(g.err)
                   /\ _options' = [_options EXCEPT ![r] = declared.opts]
              ELSE /\ _options' = [_options EXCEPT
                                      ![r] = [declared.opts EXCEPT ![g.idx] = set_of(@, v)]]
                   /\ ret' = IF is_valid(set_of(declared.opts[g.idx], v))
                             THEN NoRet ELSE Threw("invalid_argument")
        /\ UNCHANGED types

\* Options::parse( argc, argv, optionsFile )
parse(r, argv, file) ==
    LET res == parse_of(_options[r], argv, file)
    IN  /\ _options' = [_options EXCEPT ![r] = res.opts]
        /\ ret' = Threw(res.err)
        /\ UNCHANGED types

\* Options::Options( const Options& ) and Options::operator=( const Options& ):
\* the vector is copied holder by holder, then every copy is bound to `this`.
copy(dst, src) ==
    /\ _options' = [_options EXCEPT ![dst] = AssignAll(CopyVector(_options[src]), dst)]
    /\ ret' = NoRet
    /\ UNCHANGED types

\* Options::Options( Options&& ) and Options::operator=( Options&& ): the
\* vector is moved, which leaves the source vector empty.
move(dst, src) ==
    /\ dst # src
    /\ _options' = [_options EXCEPT ![dst] = AssignAll(_options[src], dst),
                                    ![src] = <<>>]
    /\ ret' = NoRet
    /\ UNCHANGED types

\* options.get<OptionType>().name_long()
name_long(r, T) ==
    LET g == get_of(_options[r], T)
    IN  /\ ret' \in IF g.err # "none" THEN {Threw(g.err)}
                    ELSE name_long_of(_options[r][g.idx])
        /\ UNCHANGED <<types, _options>>

\* options.get<OptionType>().name_short()
name_short(r, T) ==
    LET g == get_of(_options[r], T)
    IN  /\ ret' \in IF g.err # "none" THEN {Threw(g.err)}
                    ELSE name_short_of(_options[r][g.idx])
        /\ UNCHANGED <<types, _options>>

Next ==
    \/ \E T \in types : declare(1, T)
    \/ \E ts \in TypeSeqs(MaxList) : \E shape \in TupleShapes :
            declare_tuple(1, TupleInput(ts, shape))
    \/ \E ts \in TypeSeqs(MaxList) : \E shape \in PackShapes :
            /\ Len(ts) >= 2
            /\ declare_variadic(1, PackInput(ts, shape))
    \/ \E T \in types : forget(1, T)
    \/ \E T \in types : is_declared(1, T)
    \/ \E T \in types : is_set(1, T)
    \/ \E T \in types : get_value(1, T)
    \/ \E T \in types : get(1, T)
    \/ \E T \in types : \E F \in Fallbacks : get_value_or(1, T, F)
    \/ \E T \in types : \E v \in Values : set_value(1, T, v)
    \/ \E T \in types : \E v \in Values : set_value_and_check(1, T, v)
    \/ \E T \in types : \E v \in Values : declare_set_check(1, T, v)
    \/ \E argv \in ArgvInputs : \E file \in FileInputs : parse(1, argv, file)

\* One Options object, which is never copied or moved.
Spec == Init /\ [][Next]_vars

(***************************************************************************)
(* Two Options objects that are copied and moved into each other; every    *)
(* call may be made on either (a declare over a list on the first).        *)
(***************************************************************************)
InitCopy ==
    /\ types \in CopyPrograms
    /\ _options = [r \in Regs |-> <<>>]
    /\ ret = NoRet

NextCopy ==
    \/ \E r \in Regs : \E T \in types : declare(r, T)
    \/ \E ts \in TypeSeqs(MaxList) : \E shape \in TupleShapes :
            declare_tuple(1, TupleInput(ts, shape))
    \/ \E ts \in TypeSeqs(MaxList) : \E shape \in PackShapes :
            /\ Len(ts) >= 2
            /\ declare_variadic(1, PackInput(ts, shape))
    \/ \E r \in Regs : \E T \in types : forget(r, T)
    \/ \E r \in Regs : \E T \in types : get_value(r, T)
    \/ \E r \in Regs : \E T \in types : \E v \in Values : set_value(r, T, v)
    \/ \E r \in Regs : \E argv \in ArgvInputs : parse(r, argv, <<>>)
    \/ \E dst \in Regs : \E src \in Regs : copy(dst, src)
    \/ \E dst \in Regs : \E src \in Regs : move(dst, src)

SpecCopy == InitCopy /\ [][NextCopy]_vars

(***************************************************************************)
(* One Options object whose options are asked for their long and short     *)
(* names.  A process that an assertion has aborted makes no further call.  *)
(***************************************************************************)
\* options.get<OptionType>().name_long_prefixed()
name_long_prefixed(r, T) ==
    LET g == get_of(_options[r], T)
    IN  /\ ret' = IF g.err # "none" THEN Threw(g.err)
                  ELSE name_long_prefixed_of(_options[r][g.idx])
        /\ UNCHANGED <<types, _options>>

InitNames ==
    /\ types \in NamePrograms
    /\ _options = [r \in Regs |-> <<>>]
    /\ ret = NoRet

Running == ret.err # "abort"

NextNames ==
    \/ \E T \in types : Running /\ declare(1, T)
    \/ \E T \in types : Running /\ forget(1, T)
    \/ \E T \in types : \E v \in Values : Running /\ set_value(1, T, v)
    \/ \E T \in types : Running /\ get_value(1, T)
    \/ \E T \in types : Running /\ name_long(1, T)
    \/ \E T \in types : Running /\ name_short(1, T)
    \/ \E T \in types : Running /\ name_long_prefixed(1, T)

SpecNames == InitNames /\ [][NextNames]_vars

(***************************************************************************)
(* One Options object with switches, parsed from command lines that give   *)
(* an option with a value or without one.                                  *)
(***************************************************************************)
BoolValues == {0, 1}

SwitchArgvInputs ==
    {<<>>}
    \cup {<<[style |-> "long", key |-> k, value |-> v]>> :
              k \in LongKeys, v \in BoolValues \cup {NoValue}}
    \cup {<<[style |-> "short", key |-> k, value |-> v]>> :
              k \in ShortKeys, v \in BoolValues \cup {NoValue}}

InitSwitch ==
    /\ types \in SwitchPrograms
    /\ _options = [r \in Regs |-> <<>>]
    /\ ret = NoRet

NextSwitch ==
    \/ \E T \in types : declare(1, T)
    \/ \E T \in types : forget(1, T)
    \/ \E T \in types : \E v \in BoolValues : set_value(1, T, v)
    \/ \E T \in types : get_value(1, T)
    \/ \E argv \in SwitchArgvInputs : parse(1, argv, <<>>)

SpecSwitch == InitSwitch /\ [][NextSwitch]_vars

(***************************************************************************)
(* polymorphic<A>: a value that owns an object of A or of a class derived  *)
(* from A behind a wrapper_impl<A, ActualT>, which remembers the class the *)
(* object was constructed as.  The classes are those of the tests: B and C *)
(* derive from A, which has no base.  The variables a, b and c of the test *)
(* are the keys of _options; a moved-from variable owns nothing, <<>>.     *)
(***************************************************************************)
PolyParent == [A |-> "none", B |-> "A", C |-> "A"]

PolyTypes == DOMAIN PolyParent

PolyVars == {1, 2, 3}

\* dynamic_cast<const T*>( &other ) of an object whose dynamic type is O:
\* not null when O is T or derives from it.
RECURSIVE dynamic_cast_to(_, _)
dynamic_cast_to(O, T) ==
    \/ O = T
    \/ /\ PolyParent[O] # "none"
       /\ dynamic_cast_to(PolyParent[O], T)

\* wrapper_impl<BaseT, ActualT>( ActualT&& object )
wrapper_impl(X) == [ActualT |-> X]

\* the test by the exact type instead of the cast
wrapper_is_dynamic_castable_to_actual_exact(w, O) == O = w.ActualT

\* wrapper_impl::is_dynamic_castable_to_actual( other )
wrapper_is_dynamic_castable_to_actual(w, O) == dynamic_cast_to(O, w.ActualT)

\* A::f(), B::f() and C::f()
f_of(X) == CASE X = "A" -> 3 [] X = "B" -> 17 [] X = "C" -> 26

\* v = polymorphic<A>( X{} ): the constructor from an object of a class
\* derived from A, then the move assignment.
polymorphic_assign_new(v, X) ==
    /\ _options' = [_options EXCEPT ![v] = <<wrapper_impl(X)>>]
    /\ ret' = NoRet
    /\ UNCHANGED types

\* polymorphic::operator=( const polymorphic& ): the clone of the wrapper of
\* the source, of the same ActualT.  The source of a clone that owns nothing
\* is a call through a null pointer: the program stops, or goes on with
\* the target owning nothing.
polymorphic_assign_copy(dst, src) ==
    /\ IF _options[src] = <<>>
       THEN \/ ret' = Threw("abort") /\ UNCHANGED _options
            \/ ret' = NoRet /\ _options' = [_options EXCEPT ![dst] = <<>>]
       ELSE /\ _options' = [_options EXCEPT
                                ![dst] = <<wrapper_impl(_options[src][1].ActualT)>>]
            /\ ret' = NoRet
    /\ UNCHANGED types

\* polymorphic::operator=( polymorphic&& ): the pointer moves, the source
\* owns nothing afterwards; a move onto itself changes nothing.
polymorphic_assign_move(dst, src) ==
    /\ _options' = IF dst = src THEN _options
                   ELSE [_options EXCEPT ![dst] = _options[src], ![src] = <<>>]
    /\ ret' = NoRet
    /\ UNCHANGED types

\* typeid( v.get() ) and v.get().f(): get() asserts that the variable owns
\* an object and returns it as it was constructed.
polymorphic_get(v) ==
    /\ ret' = IF _options[v] = <<>> THEN Threw("abort")
              ELSE [err |-> "none", val |-> <<f_of(_options[v][1].ActualT)>>,
                    flag |-> FALSE, type |-> _options[v][1].ActualT]
    /\ UNCHANGED <<types, _options>>

\* v.is_dynamic_castable_to_actual( O{} ): the answer of the wrapper; on a
\* variable that owns nothing it is a call through a null pointer, after
\* which the program stops or goes on with either answer.
is_dynamic_castable_to_actual(v, O) ==
    /\ ret' \in IF _options[v] = <<>>
                THEN {Threw("abort")}
                     \cup {[err |-> "none", val |-> <<>>, flag |-> b, type |-> O] :
                               b \in BOOLEAN}
                ELSE {[err |-> "none", val |-> <<>>,
                       flag |-> wrapper_is_dynamic_castable_to_actual(_options[v][1], O),
                       type |-> O]}
    /\ UNCHANGED <<types, _options>>

InitPoly ==
    /\ types = PolyTypes
    /\ _options \in [PolyVars -> {<<wrapper_impl(X)>> : X \in PolyTypes}]
    /\ ret = NoRet

NextPoly ==
    \/ \E v \in PolyVars : \E X \in types : Running /\ polymorphic_assign_new(v, X)
    \/ \E dst, src \in PolyVars : Running /\ polymorphic_assign_copy(dst, src)
    \/ \E dst, src \in PolyVars : Running /\ polymorphic_assign_move(dst, src)
    \/ \E v \in PolyVars : Running /\ polymorphic_get(v)
    \/ \E v \in PolyVars : \E O \in types :
           Running /\ is_dynamic_castable_to_actual(v, O)

SpecPoly == InitPoly /\ [][NextPoly]_vars

(***************************************************************************)
(* Properties                                                              *)
(***************************************************************************)
HolderTypes(opts) == [k \in 1..Len(opts) |-> opts[k].type]

HoldersIsA(opts, T) == {k \in 1..Len(opts) : IsA(opts[k].type, T)}

HoldersOfType(opts, T) == {k \in 1..Len(opts) : opts[k].type = T}

StrictSubtype(D, B) == D # B /\ IsA(D, B)

Unrelated(A, B) == ~IsA(A, B) /\ ~IsA(B, A)

\* C1, as claimed: in every reachable state, for every option type T, at
\* most one holder of a registry is-a T.
C1_AtMostOneHolderIsA ==
    \A r \in Regs : \A T \in Types : Cardinality(HoldersIsA(_options[r], T)) <= 1

\* C1, amended: in every reachable state, for every option type T, at most
\* one holder of a registry has wrapped type exactly T, and any two holders
\* of a registry return different name() strings.
C1_AtMostOneHolderPerTypeAndName ==
    \A r \in Regs :
        /\ \A T \in Types : Cardinality(HoldersOfType(_options[r], T)) <= 1
        /\ \A i, j \in 1..Len(_options[r]) :
               i # j => TypeName[_options[r][i].type] # TypeName[_options[r][j].type]

\* Two differently named subtypes of OptBase are held by one registry, which
\* is a copy: the other registry holds them as well.
C1_Witness ==
    /\ Cardinality(HoldersIsA(_options[1], "OptBase")) = 2
    /\ Cardinality(HoldersIsA(_options[2], "OptBase")) = 2

\* C2, as claimed: for Derived : Base of one name, declare<Derived>() on a
\* registry that holds only Base, and declare<Base>() on a registry that
\* holds only Derived, both raise no error and leave exactly one holder, of
\* wrapped type Derived, which get<Base>() returns.
C2_BothOrdersEndInDerived ==
    [][\A B, D \in types :
          (StrictSubtype(D, B) /\ TypeName[D] = TypeName[B]) =>
              /\ (HolderTypes(_options[1]) = <<B>> /\ declare(1, D)) =>
                     /\ ret'.err = "none"
                     /\ HolderTypes(_options'[1]) = <<D>>
                     /\ get_of(_options'[1], B).idx = 1
              /\ (HolderTypes(_options[1]) = <<D>> /\ declare(1, B)) =>
                     /\ ret'.err = "none"
                     /\ HolderTypes(_options'[1]) = <<D>>
                     /\ get_of(_options'[1], B).idx = 1]_vars

\* C3, as claimed: when a holder of wrapped type Derived (Derived : Base, one
\* name) is declared, declare<Base>() raises no error and changes nothing,
\* and is_declared<Base>() and is_declared<Derived>() are true afterwards.
C3_DeclareBaseAfterDerivedIsNoOp ==
    [][\A B, D \in types :
          ( /\ StrictSubtype(D, B)
            /\ TypeName[D] = TypeName[B]
            /\ HoldersOfType(_options[1], D) # {}
            /\ declare(1, B) ) =>
              /\ ret'.err = "none"
              /\ _options' = _options
              /\ is_declared_of(_options'[1], B).flag
              /\ is_declared_of(_options'[1], D).flag]_vars

\* C4: for types A and B that are unrelated by inheritance and return the
\* same name, on a registry that holds A (a holder of wrapped type A) and in
\* which B is not declared, declare<B>() raises the name-conflict error and
\* leaves the registry as it was; A and B range over all such pairs, so
\* this is both orders.
C4_UnrelatedSameNameRejected ==
    [][\A A, B \in types :
          ( /\ Unrelated(A, B)
            /\ TypeName[A] = TypeName[B]
            /\ HoldersOfType(_options[1], A) # {}
            /\ HoldersIsA(_options[1], B) = {}
            /\ declare(1, B) ) =>
              /\ ret'.err = "same_name"
              /\ _options' = _options]_vars

\* A declare<B>() has just raised the name-conflict error on a registry that
\* holds the unrelated type OptOther of the same name.
C4_Witness ==
    /\ ret.err = "same_name"
    /\ HoldersOfType(_options[1], "OptOther") # {}
    /\ HoldersIsA(_options[1], "OptBase") = {}

\* C5, as claimed: declare<T>() is rejected with the name-conflict error,
\* and changes nothing, whenever some holder of a type unrelated to T has
\* the same long name as T or the same non-empty short name.
C5_SharedLongOrShortNameRejected ==
    [][\A T \in types :
          ( /\ declare(1, T)
            /\ \E k \in 1..Len(_options[1]) :
                   /\ Unrelated(_options[1][k].type, T)
                   /\ \/ long_name(TypeName[_options[1][k].type]) = long_name(TypeName[T])
                      \/ /\ short_name(TypeName[T]) # <<>>
                         /\ short_name(TypeName[_options[1][k].type])
                                = short_name(TypeName[T]) ) =>
              /\ ret'.err = "same_name"
              /\ _options' = _options]_vars

\* C6, as claimed: when Base is declared, declare<Derived>() for a Derived :
\* Base of another name raises an error, and the registry does not come to
\* hold both.
C6_RenamedDerivedRejected ==
    [][\A B, D \in types :
          ( /\ StrictSubtype(D, B)
            /\ TypeName[D] # TypeName[B]
            /\ HoldersOfType(_options[1], B) # {}
            /\ declare(1, D) ) =>
              /\ ret'.err # "none"
              /\ ~( /\ HoldersOfType(_options'[1], B) # {}
                    /\ HoldersOfType(_options'[1], D) # {} )]_vars

\* C7, as claimed: declare<T>() on a registry that holds a holder of wrapped
\* type T raises no error and leaves the registry as it was.
C7_DeclareIsIdempotent ==
    [][\A T \in types :
          (HoldersOfType(_options[1], T) # {} /\ declare(1, T)) =>
              /\ ret'.err = "none"
              /\ _options' = _options]_vars

\* the type a key T reaches in a registry: "none" for no holder, "throws"
\* for more than one
ReachedBy(opts, T) ==
    LET found == find_option_const(opts, T)
    IN  IF found = -1 THEN "throws"
        ELSE IF found = 0 THEN "none"
        ELSE opts[found].type

\* the same set of holders, each reachable through the same type keys
Equivalent(o1, o2) ==
    /\ Len(o1) = Len(o2)
    /\ {o1[k] : k \in 1..Len(o1)} = {o2[k] : k \in 1..Len(o2)}
    /\ \A T \in Types : ReachedBy(o1, T) = ReachedBy(o2, T)

RECURSIVE FlattenArg(_)
RECURSIVE FlattenMembers(_)

\* the option types of a template argument, depth-first and left to right
FlattenArg(arg) ==
    IF arg.kind = "option" THEN <<arg.type>> ELSE FlattenMembers(arg.members)

FlattenMembers(ms) ==
    IF ms = <<>> THEN <<>> ELSE FlattenArg(Head(ms)) \o FlattenMembers(Tail(ms))

FirstPos(flat, x) ==
    CHOOSE k \in 1..Len(flat) : flat[k] = x /\ \A m \in 1..(k - 1) : flat[m] # x

\* new lists types of flat, in the order of their first occurrence in flat
InOrder(new, flat) ==
    /\ \A i \in 1..Len(new) : \E k \in 1..Len(flat) : flat[k] = new[i]
    /\ \A i, j \in 1..Len(new) :
           i < j => FirstPos(flat, new[i]) < FirstPos(flat, new[j])

\* the step keeps the holders of registry r in place, appends new holders of
\* types of flat in the order of flat and, when it raises no error, leaves
\* every type of flat declared
AppendedInOrder(r, flat) ==
    LET old == HolderTypes(_options[r])
        new == HolderTypes(_options'[r])
    IN  /\ Len(new) >= Len(old)
        /\ SubSeq(new, 1, Len(old)) = old
        /\ InOrder(SubSeq(new, Len(old) + 1, Len(new)), flat)
        /\ ret'.err = "none" =>
               \A k \in 1..Len(flat) : HoldersIsA(_options'[r], flat[k]) # {}

\* C9: the holders of a registry stand in declaration order: a declare,
\* of one type, of a tuple (nested or not) or of several arguments, keeps
\* the holders already present in place and appends the new ones in the
\* left-to-right, depth-first order of its arguments; forget removes one
\* holder and keeps the order of the others; copy and move give the
\* destination the holders of the source in the order of the source.
C9_DeclarationOrder ==
    [][ /\ \A r \in Regs : \A T \in types :
               AppendedInOrder(r, <<T>>) \/ ~declare(r, T)
        /\ \A ts \in TypeSeqs(MaxList) : \A shape \in TupleShapes :
               \/ AppendedInOrder(1, FlattenArg(TupleInput(ts, shape)))
               \/ ~declare_tuple(1, TupleInput(ts, shape))
        /\ \A ts \in TypeSeqs(MaxList) : \A shape \in PackShapes :
               Len(ts) >= 2 =>
                   \/ AppendedInOrder(1, FlattenMembers(PackInput(ts, shape)))
                   \/ ~declare_variadic(1, PackInput(ts, shape))
        /\ \A r \in Regs : \A T \in types :
               (ret'.err = "none" /\ forget(r, T)) =>
                   \E k \in 1..Len(_options[r]) :
                       HolderTypes(_options'[r]) = HolderTypes(Erase(_options[r], k))
        /\ \A dst, src \in Regs :
               \/ HolderTypes(_options'[dst]) = HolderTypes(_options[src])
               \/ ~(copy(dst, src) \/ move(dst, src)) ]_vars

\* Two types were declared in the order OptDerived2N, OptDerived1N and the
\* registry was copied: both registries hold them in that order.
C9_Witness ==
    /\ HolderTypes(_options[1]) = <<"OptDerived2N", "OptDerived1N">>
    /\ HolderTypes(_options[2]) = <<"OptDerived2N", "OptDerived1N">>

\* the holder get<T>() returns, when there is exactly one holder that is-a T
TheHolder(opts, T) == opts[CHOOSE k \in HoldersIsA(opts, T) : TRUE]

C11_NoValueRaises ==
    [][\A T \in types :
          ( /\ Cardinality(HoldersIsA(_options[1], T)) = 1
            /\ ~is_set_of(TheHolder(_options[1], T))
            /\ TypeDefault[TheHolder(_options[1], T).type] = <<>>
            /\ TheHolder(_options[1], T).type # "OptSameAsAByDefault" ) =>
              /\ get_value(1, T) => (ret'.err = "not_set" /\ _options' = _options)
              /\ (ret'.err = "none" /\ parse(1, <<>>, <<>>)) =>
                     ~is_set_of(TheHolder(_options'[1], T))]_vars

\* get_value has raised the not-set error for OptOther, which is declared
\* beside an option that a parse has given its default.
C11_Witness ==
    /\ ret.err = "not_set"
    /\ \E k \in 1..Len(_options[1]) :
           _options[1][k].type = "OptOther" /\ ~is_set_of(_options[1][k])
    /\ \E k \in 1..Len(_options[1]) : _options[1][k]._value = <<DefaultVal>>

\* C12: when no holder is-a T, get<T>(), get_value<T>(), set_value<T>(v) and
\* is_set<T>() raise the was-not-declared error and forget<T>() raises the
\* not-found error (a std::logic_error each), all of them leaving the
\* holders and their values as they were; is_declared<T>() returns false
\* and raises nothing.
C12_NotDeclaredRaises ==
    [][\A T \in types :
          HoldersIsA(_options[1], T) = {} =>
              /\ ( \/ get(1, T)
                   \/ get_value(1, T)
                   \/ is_set(1, T)
                   \/ \E v \in Values : set_value(1, T, v) ) =>
                     (ret'.err = "not_declared" /\ _options' = _options)
              /\ forget(1, T) => (ret'.err = "not_found" /\ _options' = _options)
              /\ is_declared(1, T) =>
                     (ret'.err = "none" /\ ~ret'.flag /\ _options' = _options)]_vars

\* A call has raised the was-not-declared error on a registry that holds a
\* value.
C12_Witness ==
    /\ ret.err = "not_declared"
    /\ \E k \in 1..Len(_options[1]) : is_set_of(_options[1][k])

\* C13: when the only holder that is-a Base has wrapped type Derived
\* (Derived : Base), is_declared<Base>() is true, get<Base>() returns the
\* holder of dynamic type Derived, get_value<Base>() returns what value()
\* of that holder returns, and after set_value<Base>(v) the holder that
\* get<Derived>() reaches has the value v.
C13_SupertypeReachesSubtype ==
    [][\A B, D \in types :
          ( /\ StrictSubtype(D, B)
            /\ Cardinality(HoldersIsA(_options[1], B)) = 1
            /\ TheHolder(_options[1], B).type = D ) =>
              /\ is_declared(1, B) => (ret'.err = "none" /\ ret'.flag)
              /\ get(1, B) => (ret'.err = "none" /\ ret'.type = D)
              /\ get_value(1, B) =>
                     ret' = virtual_value(_options, TheHolder(_options[1], D))
              /\ \A v \in Values :
                     set_value(1, B, v) =>
                         /\ ret'.err = "none"
                         /\ get_of(_options'[1], D).err = "none"
                         /\ virtual_value(_options',
                                _options'[1][get_of(_options'[1], D).idx]).val = <<v>>]_vars

\* get has returned a reference to the holder of OptDerived1N, the only
\* holder, which has a value.
C13_Witness ==
    /\ ret.type = "OptDerived1N"
    /\ Len(_options[1]) = 1
    /\ is_set_of(_options[1][1])

\* C14: in every reachable state every option held by a registry has its
\* back-reference on that registry, whether the holder came from a
\* declare, a copy or a move.
C14_BackReferenceIsOwner ==
    \A r \in Regs : \A k \in 1..Len(_options[r]) : _options[r][k]._options = r

\* Both registries hold two options, those of the second came by a copy,
\* a move or its own declarations, and the first options of the two
\* registries have since come to differ in their value.
C14_Witness ==
    /\ Len(_options[1]) = 2
    /\ Len(_options[2]) = 2
    /\ _options[1][1]._value # _options[2][1]._value

\* the same wrapped types with the same stored values, holder by holder
SameHolders(o1, o2) ==
    /\ Len(o1) = Len(o2)
    /\ \A k \in 1..Len(o1) : o1[k].type = o2[k].type /\ o1[k]._value = o2[k]._value

\* a declare, forget, set_value or parse on registry r
ChangesOnly(r) ==
    \/ \E T \in types : declare(r, T) \/ forget(r, T)
    \/ \E T \in types : \E v \in Values : set_value(r, T, v)
    \/ \E argv \in ArgvInputs : parse(r, argv, <<>>)
    \/ /\ r = 1
       /\ \/ \E ts \in TypeSeqs(MaxList) : \E shape \in TupleShapes :
                 declare_tuple(1, TupleInput(ts, shape))
          \/ \E ts \in TypeSeqs(MaxList) : \E shape \in PackShapes :
                 Len(ts) >= 2 /\ declare_variadic(1, PackInput(ts, shape))

\* C15: a copy of a registry holds the wrapped types and the stored values
\* of the original, in its order, and leaves the original as it was; a
\* later declare, forget, set_value or parse on one registry leaves the
\* holders and the values of the other as they were.
C15_CopyIsIndependent ==
    [][ /\ \A dst, src \in Regs :
               \/ /\ SameHolders(_options'[dst], _options[src])
                  /\ _options'[src] = _options[src]
               \/ dst = src
               \/ ~copy(dst, src)
        /\ \A r, o \in Regs :
               \/ _options'[o] = _options[o]
               \/ o = r
               \/ ~ChangesOnly(r) ]_vars

\* The second registry holds the two options of the first, which has a
\* value the second has not: a registry was copied and one of the two was
\* set afterwards.
C15_Witness ==
    /\ HolderTypes(_options[1]) = <<"OptDerived1N", "OptDerived2N">>
    /\ HolderTypes(_options[2]) = <<"OptDerived1N", "OptDerived2N">>
    /\ _options[1][1]._value = <<1>>
    /\ _options[2][1]._value = <<>>
    /\ _options[1][2]._value = _options[2][2]._value

\* C16: get_value<OptSameAsAByDefault>() on a registry returns the stored
\* value of that option when it has one and otherwise what value() of the
\* OptA of the same registry returns (or raises), whatever the other
\* registry holds; so after a copy and a change of OptA in the copy, each
\* registry answers with its own OptA.
C16_CrossOptionFollowsOwner ==
    [][\A r \in Regs :
          ( /\ "OptSameAsAByDefault" \in types
            /\ HoldersOfType(_options[r], "OptSameAsAByDefault") # {}
            /\ get_value(r, "OptSameAsAByDefault") ) =>
              LET b == TheHolder(_options[r], "OptSameAsAByDefault")
              IN  IF is_set_of(b) THEN ret'.err = "none" /\ ret'.val = b._value
                  ELSE IF HoldersOfType(_options[r], "OptA") = {}
                       THEN ret'.err = "not_declared"
                  ELSE ret' = value_of(TheHolder(_options[r], "OptA"))]_vars

\* Both registries hold OptA and OptSameAsAByDefault, the second of them
\* without a value in either; OptA has a value in the second registry
\* only, and a get_value has returned that value.
C16_Witness ==
    /\ HolderTypes(_options[1]) = <<"OptA", "OptSameAsAByDefault">>
    /\ HolderTypes(_options[2]) = <<"OptA", "OptSameAsAByDefault">>
    /\ _options[1][1]._value = <<>>
    /\ _options[2][1]._value = <<1>>
    /\ _options[1][2]._value = <<>>
    /\ _options[2][2]._value = <<>>
    /\ ret.val = <<1>>

\* C17: every holder of a copy has the dynamic type of the holder it was
\* cloned from, whichever type derived from OptBase that is, and its
\* state, so that name() and default_value() of the copy are those of the
\* original; this holds for a copy of a copy as for every copy step.
C17_CloneKeepsTypeAndState ==
    [][\A dst, src \in Regs :
          \/ /\ Len(_options'[dst]) = Len(_options[src])
             /\ \A k \in 1..Len(_options[src]) :
                    /\ _options'[dst][k].type = _options[src][k].type
                    /\ _options'[dst][k]._value = _options[src][k]._value
                    /\ TypeName[_options'[dst][k].type] = TypeName[_options[src][k].type]
                    /\ TypeDefault[_options'[dst][k].type]
                           = TypeDefault[_options[src][k].type]
          \/ ~copy(dst, src)]_vars

\* Both registries hold an OptDerived1 with the same value: one is a copy
\* of the other.
C17_Witness ==
    /\ HolderTypes(_options[1]) = <<"OptDerived1">>
    /\ HolderTypes(_options[2]) = <<"OptDerived1">>
    /\ _options[1][1]._value = <<1>>
    /\ _options[2][1]._value = <<1>>

\* C18, as claimed: for a declared option whose name() is "long,short", a
\* parse without error of a command line that gives the value v under the
\* long key or under the short key leaves the option with the value v.
C18_ParseSetsFromEitherName ==
    [][\A T \in types : \A v \in Values : \A style \in {"long", "short"} :
          ( /\ short_name(TypeName[T]) # <<>>
            /\ HoldersOfType(_options[1], T) # {}
            /\ ret'.err = "none"
            /\ parse(1, <<[style |-> style,
                           key   |-> IF style = "long" THEN long_name(TypeName[T])
                                     ELSE short_name(TypeName[T]),
                           value |-> v]>>, <<>>) ) =>
              TheHolder(_options'[1], T)._value = <<v>>]_vars

\* the input names the option type T by its long name, by a beginning of
\* it on the command line, or by its short name
Mentions(args, T) ==
    \E i \in 1..Len(args) :
        \/ args[i].style = "long" /\ IsPrefix(args[i].key, long_name(TypeName[T]))
        \/ args[i].style = "file" /\ args[i].key = long_name(TypeName[T])
        \/ args[i].style = "short" /\ args[i].key = short_name(TypeName[T])

\* C19, as claimed: a parse leaves the stored value of every declared option
\* that its input does not mention as it was: none stays none and a value
\* stays that value, for options with a default_value() as well.
C19_ParseKeepsUnmentioned ==
    [][\A argv \in ArgvInputs : \A file \in FileInputs :
          parse(1, argv, file) =>
              \A k \in 1..Len(_options[1]) :
                  (~Mentions(argv, _options[1][k].type) /\ ~Mentions(file, _options[1][k].type)) =>
                      _options'[1][k]._value = _options[1][k]._value]_vars

\* the errors the parsers of the command line and of the file raise
ParserErrors == {"unknown_option", "ambiguous_option", "missing_value"}

\* C20: a parse whose parsers raise no error raises the validation error
\* (std::invalid_argument) if and only if, with the parsed values set,
\* some option that has a value is not valid, whether that value came from
\* this parse, from a default or from an earlier set_value; an option
\* without a value is not checked.
C20_ParseChecksEverySetOption ==
    [][ \/ ( ret'.err = "invalid_argument" <=>
               \E k \in 1..Len(_options'[1]) :
                   is_set_of(_options'[1][k]) /\ ~is_valid(_options'[1][k]) )
        \/ ret'.err \in ParserErrors
        \/ ~(\E argv \in ArgvInputs : \E file \in FileInputs : parse(1, argv, file)) ]_vars

\* A parse has raised the validation error for OptCheckedD while OptChecked,
\* declared beside it, has no value.
C20_Witness ==
    /\ ret.err = "invalid_argument"
    /\ \E k \in 1..Len(_options[1]) :
           _options[1][k].type = "OptCheckedD" /\ ~is_valid(_options[1][k])
    /\ \E k \in 1..Len(_options[1]) :
           _options[1][k].type = "OptChecked" /\ ~is_set_of(_options[1][k])

\* the holders whose long name is the key of an input
HoldersOfKey(opts, key) ==
    {k \in 1..Len(opts) : long_name(TypeName[opts[k].type]) = key}

\* C21: when a parse without error is given a command line and a file that
\* specify the same option with different values, the option holds the
\* value of the command line afterwards.
C21_CommandLineHasPriority ==
    [][\A argv \in ArgvInputs \ {<<>>} : \A file \in FileInputs \ {<<>>} :
          ( /\ argv[1].style = "long"
            /\ argv[1].key = file[1].key
            /\ argv[1].value # file[1].value
            /\ ret'.err = "none"
            /\ parse(1, argv, file) ) =>
              \A k \in HoldersOfKey(_options[1], argv[1].key) :
                  _options'[1][k]._value = <<argv[1].value>>]_vars

\* the argument names a declared option by its whole long or short name
NamesDeclared(opts, arg) ==
    \E k \in 1..Len(opts) :
        IF arg.style = "short" THEN short_name(TypeName[opts[k].type]) = arg.key
        ELSE long_name(TypeName[opts[k].type]) = arg.key

\* the argument of the command line begins the long name of a declared option
BeginsDeclared(opts, arg) ==
    /\ arg.style = "long"
    /\ \E k \in 1..Len(opts) : IsPrefix(arg.key, long_name(TypeName[opts[k].type]))

C23_SetOverwritesUnchecked ==
    [][\A T \in types : \A v \in Values :
          ( /\ Cardinality(HoldersIsA(_options[1], T)) = 1
            /\ set_value(1, T, v) ) =>
              LET i == CHOOSE k \in HoldersIsA(_options[1], T) : TRUE
              IN  /\ ret'.err = "none"
                  /\ Len(_options'[1]) = Len(_options[1])
                  /\ _options'[1][i] = [_options[1][i] EXCEPT !._value = <<v>>]
                  /\ \A k \in 1..Len(_options[1]) : k # i => _options'[1][k] = _options[1][k]
                  /\ _options'[2] = _options[2]]_vars

\* set_value has returned after it gave OptChecked a value that its
\* is_valid rejects, beside an OptCheckedD that keeps a value.
C23_Witness ==
    /\ ret = NoRet
    /\ HolderTypes(_options[1]) = <<"OptCheckedD", "OptChecked">>
    /\ _options[1][1]._value = <<DefaultVal>>
    /\ _options[1][2]._value = <<MaxVal>>
    /\ ~is_valid(_options[1][2])

\* the alphabetic characters of the names
Alphabetic ==
    {"a", "b", "c", "d", "e", "i", "n", "r", "s", "v", "x", "y", "z", "A", "B", "N"}

\* a well-formed name: a long part without a comma and of one character or
\* more, alone or with a short part of exactly one alphabetic character
\* before or after it
WellFormed(name) ==
    LET commas == {i \in 1..Len(name) : name[i] = ","}
        c      == CommaAt(name)
    IN  /\ Len(name) >= 1
        /\ Cardinality(commas) <= 1
        /\ commas # {} =>
              /\ c > 1
              /\ c < Len(name)
              /\ \/ c = Len(name) - 1 /\ name[Len(name)] \in Alphabetic
                 \/ c = 2 /\ name[1] \in Alphabetic

\* C24: for a declared option with a well-formed name, name_long() returns
\* the long part of the name and name_short() returns the short letter, or
\* the char 0 when the name has no short part.
C24_NameIsSplit ==
    [][\A T \in types :
          ( /\ HoldersOfType(_options[1], T) # {}
            /\ WellFormed(TypeName[T]) ) =>
              /\ name_long(1, T) =>
                     ret'.err = "none" /\ ret'.val = long_name(TypeName[T])
              /\ name_short(1, T) =>
                     ret'.err = "none" /\ ret'.val = short_name(TypeName[T])]_vars

\* C25: for a declared option with a malformed name, name_long() and
\* name_short() raise the name-format error.
C25_MalformedNameRaises ==
    [][\A T \in types :
          ( /\ HoldersOfType(_options[1], T) # {}
            /\ ~WellFormed(TypeName[T]) ) =>
              /\ name_long(1, T) => ret'.err = "name_format"
              /\ name_short(1, T) => ret'.err = "name_format"]_vars

\* D1 and D2 are two types derived from the same base, neither from the other
Siblings(D1, D2) ==
    /\ Unrelated(D1, D2)
    /\ TypeParent[D1] # "Option"
    /\ TypeParent[D1] = TypeParent[D2]

\* C26: for two types D1 and D2 derived from one base: when they return
\* the same name, declare<D1, D2>() raises the name-conflict error in every
\* state of the registry, with the base declared or not, and declare<D2>()
\* raises it and changes nothing when D1 is declared; when their names
\* differ and no other declared option has either name, declare<D1, D2>()
\* raises nothing and leaves a holder of type D1 and one of type D2.
C26_SiblingNames ==
    [][\A D1 \in types : \A D2 \in types :
          Siblings(D1, D2) =>
              IF TypeName[D1] = TypeName[D2]
              THEN /\ declare_variadic(1, <<OptionArg(D1), OptionArg(D2)>>) =>
                          ret'.err = "same_name"
                   /\ (HoldersOfType(_options[1], D1) # {} /\ declare(1, D2)) =>
                          ret'.err = "same_name" /\ _options' = _options
              ELSE ( /\ \A k \in 1..Len(_options[1]) :
                            TypeName[_options[1][k].type] \in {TypeName[D1], TypeName[D2]} =>
                                _options[1][k].type \in {D1, D2}
                     /\ declare_variadic(1, <<OptionArg(D1), OptionArg(D2)>>) ) =>
                        /\ ret'.err = "none"
                        /\ HoldersOfType(_options'[1], D1) # {}
                        /\ HoldersOfType(_options'[1], D2) # {}]_vars

\* declare<OptDerived1, OptDerived2>() has declared OptDerived1 and raised
\* the name-conflict error at OptDerived2.
C26_Witness ==
    /\ "OptDerived2" \in types
    /\ ret.err = "same_name"
    /\ HolderTypes(_options[1]) = <<"OptDerived1">>

RemovedOnly(i) ==
    /\ Len(_options'[1]) = Len(_options[1]) - 1
    /\ \A k \in 1..Len(_options'[1]) :
           _options'[1][k] = IF k < i THEN _options[1][k] ELSE _options[1][k + 1]
    /\ _options'[2] = _options[2]

\* C28, as claimed: when exactly one holder is-a T, forget<T>() removes that
\* holder and no other, is_declared<T>() is false afterwards, and a
\* declare<T>() on the registry it leaves appends a fresh holder of T
\* without a value.
C28_ForgetThenDeclareFresh ==
    [][\A T \in types :
          ( /\ Cardinality(HoldersIsA(_options[1], T)) = 1
            /\ forget(1, T) ) =>
              /\ ret'.err = "none"
              /\ RemovedOnly(CHOOSE k \in HoldersIsA(_options[1], T) : TRUE)
              /\ is_declared_of(_options'[1], T) = [NoRet EXCEPT !.flag = FALSE]
              /\ declare_one(_options'[1], 1, T) =
                     [opts |-> Append(_options'[1], construct(T, 1)), err |-> "none"]]_vars

\* C28, amended: as claimed, but the declare<T>() after the forget appends
\* the fresh holder only when no remaining holder has the name of T; when
\* one has it, the declare raises the name-conflict error and leaves the
\* registry without a holder for T.
C28_ForgetThenDeclareFreshUnlessNameTaken ==
    [][\A T \in types :
          ( /\ Cardinality(HoldersIsA(_options[1], T)) = 1
            /\ forget(1, T) ) =>
              /\ ret'.err = "none"
              /\ RemovedOnly(CHOOSE k \in HoldersIsA(_options[1], T) : TRUE)
              /\ is_declared_of(_options'[1], T) = [NoRet EXCEPT !.flag = FALSE]
              /\ declare_one(_options'[1], 1, T) =
                     IF \E k \in 1..Len(_options'[1]) :
                            TypeName[_options'[1][k].type] = TypeName[T]
                     THEN [opts |-> _options'[1], err |-> "same_name"]
                     ELSE [opts |-> Append(_options'[1], construct(T, 1)), err |-> "none"]]_vars

\* After a forget of the first of two holders that held values, the
\* OptDerived2N that was second is first and keeps its value.
C28_Witness ==
    /\ types = {"OptDerived1N", "OptDerived2N", "OptOther"}
    /\ ret = NoRet
    /\ HolderTypes(_options[1]) = <<"OptDerived2N", "OptOther">>
    /\ _options[1][1]._value = <<MaxVal>>
    /\ _options[1][2]._value = <<>>

C30_FailedDeclareChangesNothing ==
    [][\A T \in types :
          ( /\ ret'.err # "none"
            /\ declare(1, T) ) =>
              /\ ret'.err \in {"same_name", "more_than_one"}
              /\ _options' = _options]_vars

\* declare<OptBase>() has raised the name-conflict error on a registry whose
\* OptOther holds a value.
C30_Witness ==
    /\ "OptBase" \in types
    /\ ret.err = "same_name"
    /\ HolderTypes(_options[1]) = <<"OptOther">>
    /\ _options[1][1]._value = <<MaxVal>>

\* the single declares of the first n types of flat, one after the other
RECURSIVE DeclareEach(_, _, _)
DeclareEach(opts, flat, n) ==
    IF n = 0 THEN [opts |-> opts, err |-> "none"]
    ELSE LET before == DeclareEach(opts, flat, n - 1)
         IN  IF before.err # "none" THEN before
             ELSE declare_one(before.opts, 1, flat[n])

\* the step has left registry 1 as the single declares of the members before
\* some member k of flat leave it, all without error, and has raised the
\* error that the single declare of member k raises there
StoppedAtMember(flat) ==
    \E k \in 1..Len(flat) :
        /\ DeclareEach(_options[1], flat, k - 1) = [opts |-> _options'[1], err |-> "none"]
        /\ declare_one(_options'[1], 1, flat[k]) = [opts |-> _options'[1], err |-> ret'.err]

\* C31: when a declare over a tuple (nested or not) or over several
\* arguments raises an error, it stops at the first member whose declare
\* fails: the registry holds what it held and the holders the members
\* before that one have added, and nothing of that member or a later one.
C31_ListDeclareStopsAtFailure ==
    [][ ret'.err \in {"same_name", "more_than_one"} =>
          /\ \A ts \in TypeSeqs(MaxList) : \A shape \in TupleShapes :
                 declare_tuple(1, TupleInput(ts, shape)) =>
                     StoppedAtMember(FlattenArg(TupleInput(ts, shape)))
          /\ \A ts \in TypeSeqs(MaxList) : \A shape \in PackShapes :
                 (Len(ts) >= 2 /\ declare_variadic(1, PackInput(ts, shape))) =>
                     StoppedAtMember(FlattenMembers(PackInput(ts, shape))) ]_vars

\* declare<OptBase, OptOther>() has added OptBase and raised the
\* name-conflict error at OptOther.
C31_Witness ==
    /\ "OptOther" \in types
    /\ ret.err = "same_name"
    /\ HolderTypes(_options[1]) = <<"OptBase">>
    /\ _options[1][1]._value = <<>>

\* the values the input gives to the option type T
ValuesFor(args, T) ==
    {args[i].value : i \in {j \in 1..Len(args) : Mentions(<<args[j]>>, T)}}

\* C32: when a parse raises the validation error, every declared option
\* that the command line or the file mentions holds a value the input gives
\* it, and value() returns that value.
C32_ParseNotRolledBack ==
    [][ ret'.err = "invalid_argument" =>
          \A argv \in ArgvInputs : \A file \in FileInputs :
              parse(1, argv, file) =>
                  \A k \in 1..Len(_options[1]) :
                      LET given == ValuesFor(argv \o file, _options[1][k].type)
                      IN  given # {} =>
                              /\ is_set_of(_options'[1][k])
                              /\ _options'[1][k]._value[1] \in given
                              /\ value_of(_options'[1][k]).val = _options'[1][k]._value ]_vars

\* the step has left exactly one holder that is-a T, with the value v, which
\* its is_valid rejects
HoldsRejected(T, v) ==
    /\ Cardinality(HoldersIsA(_options'[1], T)) = 1
    /\ TheHolder(_options'[1], T)._value = <<v>>
    /\ ~is_valid(TheHolder(_options'[1], T))

\* C33: when set_value_and_check<T>(v) or declare_set_check<T>(v) raises
\* the validation error, the holder that is-a T holds v, whatever it held
\* before, and the other holders are as they were; after declare_set_check
\* T is declared, by the holder it had or by one the call has appended.
C33_CheckedSettersStoreFirst ==
    [][ ret'.err = "invalid_argument" =>
          \A T \in types : \A v \in Values :
              /\ set_value_and_check(1, T, v) =>
                     /\ HoldsRejected(T, v)
                     /\ HolderTypes(_options'[1]) = HolderTypes(_options[1])
                     /\ \A k \in 1..Len(_options[1]) :
                            k \notin HoldersIsA(_options[1], T) =>
                                _options'[1][k] = _options[1][k]
              /\ declare_set_check(1, T, v) =>
                     /\ HoldsRejected(T, v)
                     /\ HolderTypes(_options'[1]) =
                            IF HoldersIsA(_options[1], T) # {} THEN HolderTypes(_options[1])
                            ELSE Append(HolderTypes(_options[1]), T)
                     /\ \A k \in 1..Len(_options[1]) :
                            k \notin HoldersIsA(_options[1], T) =>
                                _options'[1][k] = _options[1][k] ]_vars

\* A checked setter has raised the validation error for OptChecked, which
\* holds the rejected value beside an OptXA without a value.
C33_Witness ==
    /\ ret.err = "invalid_argument"
    /\ HolderTypes(_options[1]) = <<"OptChecked", "OptXA">>
    /\ _options[1][1]._value = <<MaxVal>>
    /\ _options[1][2]._value = <<>>

\* C34: a declare<T>() on a registry that adds a holder leaves the holders
\* the registry had in place, with their types, values and back-references,
\* and puts after them one holder of type T that has no value and refers
\* back to that registry; the other registry is as it was.
C34_DeclareAppendsFreshHolder ==
    [][\A r \in Regs : \A T \in types :
          ( /\ Len(_options'[r]) > Len(_options[r])
            /\ declare(r, T) ) =>
              /\ ret'.err = "none"
              /\ Len(_options'[r]) = Len(_options[r]) + 1
              /\ SubSeq(_options'[r], 1, Len(_options[r])) = _options[r]
              /\ _options'[r][Len(_options'[r])].type = T
              /\ _options'[r][Len(_options'[r])]._value = <<>>
              /\ _options'[r][Len(_options'[r])]._options = r
              /\ \A q \in Regs \ {r} : _options'[q] = _options[q]]_vars

\* The second registry holds OptDerived2N, appended without a value after
\* an OptDerived1N that keeps its value; both refer back to the second
\* registry.
C34_Witness ==
    /\ ret = NoRet
    /\ HolderTypes(_options[2]) = <<"OptDerived1N", "OptDerived2N">>
    /\ _options[2][1]._value = <<MaxVal>>
    /\ _options[2][2]._value = <<>>
    /\ \A k \in 1..2 : _options[2][k]._options = 2
    /\ _options[1] = <<>>

\* C35: for a declared option with a well-formed name,
\* name_long_prefixed() returns "--" followed by the long part of the name,
\* without the comma and the short letter when the name has them.
C35_PrefixedLongNameOnly ==
    [][\A T \in types :
          ( /\ HoldersOfType(_options[1], T) # {}
            /\ WellFormed(TypeName[T])
            /\ name_long_prefixed(1, T) ) =>
              /\ ret'.err = "none"
              /\ ret'.val = <<"-", "-">> \o long_name(TypeName[T])]_vars

\* C36: for the declared switch OptBatch, named "batch,b" and without a
\* default_value(), after a parse without error of a command line value()
\* returns true when the line gives the flag without a value, the value of
\* the line when it gives one, and false when the line does not give the
\* flag and the switch had no value.
C36_SwitchValue ==
    [][ ( /\ ret'.err = "none"
          /\ HoldersOfType(_options[1], "OptBatch") # {} ) =>
          \A argv \in SwitchArgvInputs :
              parse(1, argv, <<>>) =>
                  LET after == value_of(TheHolder(_options'[1], "OptBatch"))
                  IN  IF Mentions(argv, "OptBatch")
                      THEN /\ after.err = "none"
                           /\ after.val = IF argv[1].value = NoValue THEN <<1>>
                                          ELSE <<argv[1].value>>
                      ELSE ~is_set_of(TheHolder(_options[1], "OptBatch")) =>
                               /\ after.err = "none"
                               /\ after.val = <<0>> ]_vars

\* the classes derived from a class, as the classes of the tests are
\* declared
PolySubtypes == [A |-> {"B", "C"}, B |-> {}, C |-> {}]

\* C37: for a variable whose wrapped object was constructed as X,
\* is_dynamic_castable_to_actual( o ) answers true exactly when the dynamic
\* type of o is X or a class derived from X: a holder of A accepts objects
\* of A, B and C, a holder of B rejects an A and a C.
C37_CastableToActualOrSubtype ==
    [][\A v \in PolyVars : \A O \in PolyTypes :
          ( /\ _options[v] # <<>>
            /\ is_dynamic_castable_to_actual(v, O) ) =>
              LET X == _options[v][1].ActualT
              IN  ret'.flag <=> (O = X \/ O \in PolySubtypes[X]) ]_vars

\* every variable holds an A, and the answer for an object of B is true
C37_Witness ==
    /\ types = PolyTypes
    /\ \A v \in PolyVars : _options[v] = <<wrapper_impl("A")>>
    /\ ret = [err |-> "none", val |-> <<>>, flag |-> TRUE, type |-> "B"]

====
